---- MODULE Spec2Model ----
(***************************************************************************)
(* A model of the PT Exercise Planner backend (backend/main.py,            *)
(* backend/services.py, backend/utils.py, backend/models.py).              *)
(*                                                                         *)
(* Python values are written as follows.  A dict is a function from its    *)
(* string keys to its values; a list is a sequence.  Every value stored    *)
(* under a dict key carries its Python type, [t |-> type, v |-> value],    *)
(* so that the type-dependent operations of the code (list.append on a     *)
(* schedule entry, the truth value of a list) can be decided.              *)
(***************************************************************************)
EXTENDS Integers, Sequences, FiniteSets, TLC

VARIABLES
    patients_db,   \* main.py:29      the in-memory mapping  name -> patient record
    db_file,       \* main.py:290,297 the file patients_db.json (written by save_database, read at startup)
    data_file,     \* utils.py:6      the file database/patients.json (written by save_patients)
    data_dir,      \* utils.py:6      whether the directory database/ exists (init_db.py makes it)
    api_key,       \* services.py:20  whether ANTHROPIC_API_KEY is set in the environment
    resp,          \* the last request handled and the response it got
    nreq,          \* number of requests handled so far
    chat,          \* services.py:161 one run of the chat_with_pt generator
    ext,           \* services.py:75-94, 139-159  one reply text and what each call site made of it
    tasks          \* main.py:108-258 the requests in flight, one per thread, and where each stands

vars == <<patients_db, db_file, data_file, data_dir, api_key, resp, nreq, chat, ext, tasks>>

(***************************************************************************)
(* Bounds of the model.                                                    *)
(***************************************************************************)
MaxOps == 3        \* requests handled in one run
MaxFrags == 3      \* text fragments the provider delivers in one chat stream
MaxLen == 4        \* characters of a reply text handed to the extractor

(***************************************************************************)
(* Python values.                                                          *)
(***************************************************************************)
JStr(s) == [t |-> "str", v |-> s]
JInt(i) == [t |-> "int", v |-> i]
JList(s) == [t |-> "list", v |-> s]
JDict(d) == [t |-> "dict", v |-> d]
JNull == [t |-> "NoneType", v |-> 0]

EmptyDict == [k \in {} |-> JNull]

\* dict.update(u): the keys of u are added or overwritten
Update(d, u) == [k \in (DOMAIN d) \cup (DOMAIN u) |-> IF k \in DOMAIN u THEN u[k] ELSE d[k]]

\* d[key] = value
Put(d, key, value) == [k \in (DOMAIN d) \cup {key} |-> IF k = key THEN value ELSE d[k]]

\* del d[key]
Del(d, key) == [k \in (DOMAIN d) \ {key} |-> d[k]]

(***************************************************************************)
(* utils.py                                                                *)
(***************************************************************************)
Weekdays == {"Monday", "Tuesday", "Wednesday", "Thursday", "Friday", "Saturday", "Sunday"}

create_weekly_schedule == [day \in Weekdays |-> JList(<<>>)]

\* json.dump / json.load of a mapping whose keys are strings and whose values
\* are JSON values: the document holds the mapping; a file that is missing or
\* cannot be parsed loads as the empty mapping (main.py:296-304).
NoFile == [kind |-> "missing", doc |-> EmptyDict]

json_dump(mapping) == [kind |-> "json", doc |-> mapping]

json_load(file) == IF file.kind = "json" THEN file.doc ELSE EmptyDict

\* save_patients writes database/patients.json; open() raises when the
\* directory database/ does not exist.
save_patients(patients) ==
    IF data_dir
    THEN [raised |-> FALSE, file |-> json_dump(patients)]
    ELSE [raised |-> TRUE, file |-> data_file]

\* The orders in which patients_db.items() can visit the keys: a dict is visited
\* in insertion order, which the mapping of the model does not record.
Orders(keys) ==
    {order \in [1..Cardinality(keys) -> keys] : \A k \in keys : \E i \in DOMAIN order : order[i] = k}

\* utils.py:41: whether "for exercise in exercises" visits at least one element
\* (the elements of a list, the characters of a str, the keys of a dict)
Visits(exercises) ==
    CASE exercises.t = "list" -> exercises.v # <<>>
      [] exercises.t = "str" -> exercises.v # ""
      [] exercises.t = "dict" -> DOMAIN exercises.v # {}
      [] OTHER -> FALSE

\* utils.py:40-42 raises for a schedule: a value that cannot be iterated
\* (TypeError), a visited key that is no key of pt_schedule (KeyError), or a
\* visited element that is a str and has no get (AttributeError)
ScheduleRaises(weekly_schedule) ==
    \E day \in DOMAIN weekly_schedule :
        \/ weekly_schedule[day].t \notin {"list", "str", "dict"}
        \/ Visits(weekly_schedule[day]) /\ day \notin Weekdays
        \/ Visits(weekly_schedule[day]) /\ weekly_schedule[day].t # "list"

\* utils.py:42: f"{patient_name}: {exercise.get('name', exercise)}"; the default
\* of get is the exercise itself, written as str() writes a dict
ScheduleLine(patient_name, exercise) ==
    patient_name \o ": " \o (IF "name" \in DOMAIN exercise THEN exercise.name.v ELSE "{}")

\* The lines that one patient's schedule adds to pt_schedule[day]
PatientLines(patient_name, weekly_schedule, day) ==
    IF day \in DOMAIN weekly_schedule /\ weekly_schedule[day].t = "list"
    THEN [i \in DOMAIN weekly_schedule[day].v |->
              ScheduleLine(patient_name, weekly_schedule[day].v[i])]
    ELSE <<>>

\* pt_schedule[day] after the patients order[1], order[2], ... have been visited
RECURSIVE DayLines(_, _, _)
DayLines(db, order, day) ==
    IF order = <<>> THEN <<>>
    ELSE DayLines(db, SubSeq(order, 1, Len(order) - 1), day)
             \o PatientLines(order[Len(order)], db[order[Len(order)]].weekly_schedule.v, day)

\* generate_pt_weekly_schedule(patients_db), the keys visited in the given order
generate_pt_weekly_schedule(db, order) ==
    IF \E patient_name \in DOMAIN db :
           /\ "weekly_schedule" \in DOMAIN db[patient_name]
           /\ ScheduleRaises(db[patient_name].weekly_schedule.v)
    THEN [raised |-> TRUE, value |-> [day \in Weekdays |-> JList(<<>>)]]
    ELSE [raised |-> FALSE, value |-> [day \in Weekdays |-> JList(DayLines(db, order, day))]]

(***************************************************************************)
(* services.py: the reply of the model provider and the JSON found in it.  *)
(*                                                                         *)
(* A reply text is a sequence of characters.  "{" and "}" are the braces.  *)
(* "t" is a character of prose.  "D", "P" and "F" each stand for the text  *)
(* of a complete member list of a JSON object (MemberDict gives the        *)
(* members), and "k" for the text of a key and its colon, which a JSON     *)
(* object value must follow.                                               *)
(***************************************************************************)
Ex1 == [name |-> JStr("Squat")]
Ex2 == [name |-> JStr("Lunge")]

MemberTokens == {"D", "P", "F"}

MemberDict(c) ==
    CASE c = "D" -> [diagnosis |-> JStr("Sprain"), reasoning |-> JStr("Swelling"),
                     recommendations |-> JStr("Rest")]
      [] c = "P" -> [day \in Weekdays |-> JList(IF day = "Monday" THEN <<Ex1>> ELSE <<>>)]
      [] c = "F" -> [Funday |-> JList(<<Ex1>>)]

\* Whether s is the text of one JSON object: {} or {members} or {"k":object}
RECURSIVE IsObject(_)
IsObject(s) ==
    /\ Len(s) >= 2
    /\ s[1] = "{"
    /\ s[Len(s)] = "}"
    /\ LET body == SubSeq(s, 2, Len(s) - 1)
       IN  \/ body = <<>>
           \/ Len(body) = 1 /\ body[1] \in MemberTokens
           \/ Len(body) >= 3 /\ body[1] = "k" /\ IsObject(Tail(body))

\* The dict that the text s of a JSON object denotes
RECURSIVE ObjectOf(_)
ObjectOf(s) ==
    LET body == SubSeq(s, 2, Len(s) - 1)
    IN  IF body = <<>> THEN EmptyDict
        ELSE IF Len(body) = 1 THEN MemberDict(body[1])
        ELSE [k |-> JDict(ObjectOf(Tail(body)))]

\* json.loads(json_str): the parsed dict, or JSONDecodeError
json_loads(s) ==
    IF IsObject(s)
    THEN [raised |-> FALSE, exc |-> "", value |-> ObjectOf(s)]
    ELSE [raised |-> TRUE, exc |-> "Expecting value", value |-> EmptyDict]

\* re.search(r'\{[\s\S]*\}', content): the leftmost match starts at the first
\* "{"; the greedy star takes it to the last "}" of the text.
Opens(content) == {i \in 1..Len(content) : content[i] = "{"}
Closes(content) == {i \in 1..Len(content) : content[i] = "}"}
Min(S) == CHOOSE i \in S : \A j \in S : i <= j
Max(S) == CHOOSE i \in S : \A j \in S : i >= j

re_search(content) ==
    IF Opens(content) # {} /\ Closes(content) # {} /\ Max(Closes(content)) > Min(Opens(content))
    THEN [matched |-> TRUE, group |-> SubSeq(content, Min(Opens(content)), Max(Closes(content)))]
    ELSE [matched |-> FALSE, group |-> <<>>]

\* What client.messages.create did: it raised (detail is str(e)), or returned text
ProviderError(detail) == [kind |-> "error", detail |-> detail, text |-> <<>>]
ProviderText(text) == [kind |-> "text", detail |-> "", text |-> text]

Return(value) == [raised |-> FALSE, exc |-> "", value |-> value]
Raise(exc) == [raised |-> TRUE, exc |-> exc, value |-> EmptyDict]

NoApiKey == "ANTHROPIC_API_KEY environment variable not set"

\* services.py:84-87 and 91-94
PlanParseFallback ==
    [error |-> JStr("Failed to generate recovery plan"),
     message |-> JStr("Could not parse the AI response")]
PlanApiFallback(detail) ==
    [error |-> JStr("Failed to generate recovery plan"),
     message |-> JStr("API Error: " \o detail)]

\* services.py:147-151 and 155-159
DiagnosisParseFallback ==
    [diagnosis |-> JStr("Error parsing diagnosis"),
     reasoning |-> JStr("Could not generate reasoning"),
     recommendations |-> JStr("Consult a healthcare provider")]
DiagnosisApiFallback(detail) ==
    [diagnosis |-> JStr("Error generating diagnosis"),
     reasoning |-> JStr("API Error: " \o detail),
     recommendations |-> JStr("Consult a healthcare provider")]

\* generate_recovery_plan(patient_data, injuries), as a function of the
\* environment (key) and of what the provider did (outcome)
generate_recovery_plan(key, outcome) ==
    IF ~key THEN Raise(NoApiKey)
    ELSE IF outcome.kind = "error" THEN Return(PlanApiFallback(outcome.detail))
    ELSE LET json_match == re_search(outcome.text)
         IN  IF json_match.matched
             THEN LET parsed == json_loads(json_match.group)
                  IN  IF parsed.raised
                      THEN Return(PlanApiFallback(parsed.exc))
                      ELSE Return(parsed.value)
             ELSE Return(PlanParseFallback)

generate_diagnosis_Reraise(key, outcome) ==
    IF ~key THEN Raise(NoApiKey)
    ELSE IF outcome.kind = "error" THEN Raise(outcome.detail)
    ELSE LET json_match == re_search(outcome.text)
         IN  IF json_match.matched
             THEN LET parsed == json_loads(json_match.group)
                  IN  IF parsed.raised
                      THEN Raise(parsed.exc)
                      ELSE Return(parsed.value)
             ELSE Return(DiagnosisParseFallback)

\* generate_diagnosis(injury_data)
generate_diagnosis(key, outcome) ==
    IF ~key THEN Raise(NoApiKey)
    ELSE IF outcome.kind = "error" THEN Return(DiagnosisApiFallback(outcome.detail))
    ELSE LET json_match == re_search(outcome.text)
         IN  IF json_match.matched
             THEN LET parsed == json_loads(json_match.group)
                  IN  IF parsed.raised
                      THEN Return(DiagnosisApiFallback(parsed.exc))
                      ELSE Return(parsed.value)
             ELSE Return(DiagnosisParseFallback)

(***************************************************************************)
(* main.py: requests, responses and authentication.                        *)
(***************************************************************************)
Names == {"ann@pt.io", "bob@pt.io"}

\* The Authorization header of a request: absent, of another scheme, a bearer
\* token whose signature does not verify, or a verified one with its email
\* claim ("" when the payload has none).
NoAuth == [scheme |-> "none", sig_ok |-> FALSE, email |-> ""]
Bearer(email) == [scheme |-> "Bearer", sig_ok |-> TRUE, email |-> email]
Authorizations ==
    {NoAuth,
     [scheme |-> "Basic", sig_ok |-> FALSE, email |-> ""],
     [scheme |-> "Bearer", sig_ok |-> FALSE, email |-> "ann@pt.io"],
     Bearer("")}
    \cup {Bearer(e) : e \in Names}

\* get_current_user: Header(...) makes the header required (422 when absent)
get_current_user(authorization) ==
    IF authorization.scheme = "none"
    THEN [raised |-> TRUE, status |-> 422, detail |-> "Field required", email |-> ""]
    ELSE IF authorization.scheme # "Bearer"
    THEN [raised |-> TRUE, status |-> 401, detail |-> "Invalid token header", email |-> ""]
    ELSE IF ~authorization.sig_ok
    THEN [raised |-> TRUE, status |-> 401, detail |-> "Invalid token", email |-> ""]
    ELSE [raised |-> FALSE, status |-> 200, detail |-> "", email |-> authorization.email]

NoOutcome == [kind |-> "none", detail |-> "", text |-> <<>>]
NoExercise == [name |-> JStr("")]

\* A handled request and its response.  key is the key of patients_db the
\* handler looked up ("" when it looked up none), update is the fields set in the
\* PatientUpdate of an update_patient request, outcome is what the provider
\* did when the handler called it, created is whether the handler made the
\* patient record, body is the response body (the detail of an error).
Response(op, name, authorization, status, key, body) ==
    [op |-> op, name |-> name, auth |-> authorization, status |-> status, key |-> key,
     body |-> body, day |-> "", exercise |-> NoExercise, outcome |-> NoOutcome,
     created |-> FALSE, update |-> EmptyDict]

Startup == Response("startup", "", NoAuth, 0, "", "")

\* save_database(): json.dump of patients_db to patients_db.json
save_database(db) == json_dump(db)

\* The request bodies the model sends
PatientCreates ==
    {[name |-> JStr(n), age |-> JInt(30), injury_location |-> JNull, pain_level |-> JNull,
      mobility_status |-> JNull, medical_history |-> JNull, activity_level |-> JNull,
      goals |-> JNull] : n \in Names}

\* models.py:16-24: the fields of PatientUpdate; a key of the request body that
\* is no field of the model is ignored, and dict(exclude_unset=True) has the
\* fields that the body set (a field set to null included)
PatientUpdateFields ==
    {"age", "injury_location", "pain_level", "mobility_status", "medical_history",
     "activity_level", "goals"}

PatientUpdate(body) == [k \in (DOMAIN body) \cap PatientUpdateFields |-> body[k]]

UpdateBodies ==
    {EmptyDict,
     [age |-> JInt(31)],
     [age |-> JNull, goals |-> JStr("Run")],
     [pain_level |-> JInt(5), injuries |-> JList(<<>>), name |-> JStr("eve@pt.io")]}

PatientUpdates == {PatientUpdate(body) : body \in UpdateBodies}

Questionnaires ==
    {[body_part |-> JStr("Knee"), hurting_description |-> JStr("Ache"),
      date_of_onset |-> JNull, aggravating_factors |-> JNull, easing_factors |-> JNull,
      mechanism_of_injury |-> JNull, severity_best |-> JNull, severity_worst |-> JInt(7),
      severity_daily_avg |-> JNull, irritability_factors |-> JNull, nature_of_pain |-> JNull,
      stage |-> JNull, stability |-> JNull, specialized_data |-> JDict(EmptyDict)]}

Exercises == {Ex1, Ex2}

Days == {"Monday", "Funday", "error"}

DiagnosisOutcomes ==
    {ProviderError("overloaded"), ProviderText(<<"t">>), ProviderText(<<"t", "{", "D", "}">>),
     ProviderText(<<"{", "t", "}">>), ProviderText(<<"{", "F", "}">>)}

PlanOutcomes ==
    {ProviderError("overloaded"), ProviderText(<<"t">>), ProviderText(<<"{", "P", "}", "t">>),
     ProviderText(<<"{", "t", "}">>), ProviderText(<<"{", "F", "}">>)}

\* What a handler leaves alone
Served == nreq < MaxOps /\ nreq' = nreq + 1 /\ UNCHANGED <<data_dir, api_key, chat, ext, tasks>>
NoWrite == patients_db' = patients_db /\ db_file' = db_file /\ data_file' = data_file

(***************************************************************************)
(* main.py: the handlers.                                                  *)
(***************************************************************************)
read_users_me(authorization) ==
    LET current_user == get_current_user(authorization)
    IN  /\ Served
        /\ NoWrite
        /\ resp' = IF current_user.raised
                   THEN Response("read_users_me", "", authorization, current_user.status, "",
                                 current_user.detail)
                   ELSE Response("read_users_me", "", authorization, 200, "",
                                 current_user.email)

list_patients ==
    /\ Served
    /\ NoWrite
    /\ resp' = Response("list_patients", "", NoAuth, 200, "", DOMAIN patients_db)

get_patient(patient_name) ==
    /\ Served
    /\ NoWrite
    /\ resp' = IF patient_name \notin DOMAIN patients_db
               THEN Response("get_patient", patient_name, NoAuth, 404, patient_name,
                             "Patient not found")
               ELSE Response("get_patient", patient_name, NoAuth, 200, patient_name,
                             patients_db[patient_name])

create_patient_Overwrite(patient) ==
    /\ Served
    /\ patients_db' = Put(patients_db, patient.name.v,
                          Update(patient, [injuries |-> JList(<<>>),
                                           weekly_schedule |-> JDict(create_weekly_schedule)]))
    /\ UNCHANGED <<db_file, data_file>>
    /\ resp' = Response("create_patient", patient.name.v, NoAuth, 200, patient.name.v,
                        "created successfully")

create_patient(patient) ==
    /\ Served
    /\ UNCHANGED <<db_file, data_file>>
    /\ IF patient.name.v \in DOMAIN patients_db
       THEN /\ patients_db' = patients_db
            /\ resp' = Response("create_patient", patient.name.v, NoAuth, 400,
                                patient.name.v, "Patient already exists")
       ELSE /\ patients_db' = Put(patients_db, patient.name.v,
                                  Update(patient, [injuries |-> JList(<<>>),
                                                   weekly_schedule |-> JDict(create_weekly_schedule)]))
            /\ resp' = Response("create_patient", patient.name.v, NoAuth, 200,
                                patient.name.v, "created successfully")

update_patient_AllFields(patient_name, patient_update) ==
    /\ Served
    /\ UNCHANGED <<db_file, data_file>>
    /\ IF patient_name \notin DOMAIN patients_db
       THEN /\ patients_db' = patients_db
            /\ resp' = [Response("update_patient", patient_name, NoAuth, 404, patient_name,
                                 "Patient not found")
                        EXCEPT !.update = patient_update]
       ELSE /\ patients_db' =
                   [patients_db EXCEPT ![patient_name] =
                       Update(@, [k \in PatientUpdateFields |->
                                     IF k \in DOMAIN patient_update THEN patient_update[k]
                                     ELSE JNull])]
            /\ resp' = [Response("update_patient", patient_name, NoAuth, 200, patient_name,
                                 "updated successfully")
                        EXCEPT !.update = patient_update]

update_patient(patient_name, patient_update) ==
    /\ Served
    /\ UNCHANGED <<db_file, data_file>>
    /\ IF patient_name \notin DOMAIN patients_db
       THEN /\ patients_db' = patients_db
            /\ resp' = [Response("update_patient", patient_name, NoAuth, 404, patient_name,
                                 "Patient not found")
                        EXCEPT !.update = patient_update]
       ELSE /\ patients_db' = [patients_db EXCEPT ![patient_name] = Update(@, patient_update)]
            /\ resp' = [Response("update_patient", patient_name, NoAuth, 200, patient_name,
                                 "updated successfully")
                        EXCEPT !.update = patient_update]

delete_patient(patient_name) ==
    /\ Served
    /\ db_file' = db_file
    /\ IF patient_name \notin DOMAIN patients_db
       THEN /\ patients_db' = patients_db
            /\ data_file' = data_file
            /\ resp' = Response("delete_patient", patient_name, NoAuth, 404, patient_name,
                                "Patient not found")
       ELSE LET db == Del(patients_db, patient_name)
                saved == save_patients(db)
            IN  /\ patients_db' = db
                /\ data_file' = saved.file
                /\ resp' = IF saved.raised
                           THEN Response("delete_patient", patient_name, NoAuth, 500,
                                         patient_name, "Internal Server Error")
                           ELSE Response("delete_patient", patient_name, NoAuth, 200,
                                         patient_name, "has been deleted.")

\* main.py:142-144: injuries = patient_data.get("injuries", []); if not injuries
NoInjuries_Never(patient_data) == FALSE

NoInjuries(patient_data) == patient_data.injuries.v = <<>>

create_recovery_plan(patient_name, authorization) ==
    LET current_user == get_current_user(authorization)
        patient_identifier == current_user.email
        op == "create_recovery_plan"
    IN  /\ Served
        /\ data_file' = data_file
        /\ IF current_user.raised
           THEN /\ UNCHANGED <<patients_db, db_file>>
                /\ resp' = Response(op, patient_name, authorization, current_user.status, "",
                                    current_user.detail)
           ELSE IF patient_identifier = ""
           THEN /\ UNCHANGED <<patients_db, db_file>>
                /\ resp' = Response(op, patient_name, authorization, 400, "",
                                    "User email not found in token")
           ELSE IF patient_identifier \notin DOMAIN patients_db
           THEN /\ UNCHANGED <<patients_db, db_file>>
                /\ resp' = Response(op, patient_name, authorization, 404, patient_identifier,
                                    "Patient not found")
           ELSE IF NoInjuries(patients_db[patient_identifier])
           THEN /\ UNCHANGED <<patients_db, db_file>>
                /\ resp' = Response(op, patient_name, authorization, 400, patient_identifier,
                                    "No injuries found for this patient. Please add injury information first.")
           ELSE \E outcome \in PlanOutcomes :
                LET recovery_plan == generate_recovery_plan(api_key, outcome)
                    db == [patients_db EXCEPT
                              ![patient_identifier].weekly_schedule = JDict(recovery_plan.value)]
                IN  IF recovery_plan.raised
                    THEN /\ UNCHANGED <<patients_db, db_file>>
                         /\ resp' = Response(op, patient_name, authorization, 500,
                                             patient_identifier,
                                             "Error generating recovery plan: " \o recovery_plan.exc)
                    ELSE /\ patients_db' = db
                         /\ db_file' = save_database(db)
                         /\ resp' = [Response(op, patient_name, authorization, 200,
                                              patient_identifier, recovery_plan.value)
                                     EXCEPT !.outcome = outcome]

get_weekly_schedule(patient_name) ==
    /\ Served
    /\ NoWrite
    /\ resp' = IF patient_name \notin DOMAIN patients_db
               THEN Response("get_weekly_schedule", patient_name, NoAuth, 404, patient_name,
                             "Patient not found")
               ELSE Response("get_weekly_schedule", patient_name, NoAuth, 200, patient_name,
                             patients_db[patient_name].weekly_schedule.v)

\* list.append(exercise) on the value under day
AppendExercise(db, patient_name, day, exercise) ==
    [db EXCEPT ![patient_name].weekly_schedule.v[day].v = Append(@, exercise)]

add_exercise_to_day(patient_name, day, exercise) ==
    LET op == "add_exercise_to_day"
        Answer(status, body) ==
            [Response(op, patient_name, NoAuth, status, patient_name, body)
             EXCEPT !.day = day, !.exercise = exercise]
    IN  /\ Served
        /\ db_file' = db_file
        /\ IF patient_name \notin DOMAIN patients_db
           THEN /\ UNCHANGED <<patients_db, data_file>>
                /\ resp' = Answer(404, "Patient not found")
           ELSE IF day \notin DOMAIN patients_db[patient_name].weekly_schedule.v
           THEN /\ UNCHANGED <<patients_db, data_file>>
                /\ resp' = Answer(400, "Invalid day provided")
           ELSE IF patients_db[patient_name].weekly_schedule.v[day].t # "list"
           THEN \* AttributeError: the value has no append
                /\ UNCHANGED <<patients_db, data_file>>
                /\ resp' = Answer(500, "Internal Server Error")
           ELSE LET db == AppendExercise(patients_db, patient_name, day, exercise)
                    saved == save_patients(db)
                IN  /\ patients_db' = db
                    /\ data_file' = saved.file
                    /\ resp' = IF saved.raised
                               THEN Answer(500, "Internal Server Error")
                               ELSE Answer(200, "Exercise added")

get_overall_pt_schedule ==
    /\ Served
    /\ NoWrite
    /\ \E order \in Orders(DOMAIN patients_db) :
           LET schedule == generate_pt_weekly_schedule(patients_db, order)
           IN  resp' = IF schedule.raised
                       THEN Response("get_overall_pt_schedule", "", NoAuth, 500, "",
                                     "Internal Server Error")
                       ELSE Response("get_overall_pt_schedule", "", NoAuth, 200, "",
                                     schedule.value)

get_patient_injuries(patient_name, authorization) ==
    LET current_user == get_current_user(authorization)
        patient_identifier == current_user.email
        op == "get_patient_injuries"
    IN  /\ Served
        /\ NoWrite
        /\ resp' = IF current_user.raised
                   THEN Response(op, patient_name, authorization, current_user.status, "",
                                 current_user.detail)
                   ELSE IF patient_identifier = ""
                   THEN Response(op, patient_name, authorization, 400, "",
                                 "User email not found in token")
                   ELSE IF patient_identifier \notin DOMAIN patients_db
                   THEN Response(op, patient_name, authorization, 404, patient_identifier,
                                 "Patient not found")
                   ELSE Response(op, patient_name, authorization, 200, patient_identifier,
                                 patients_db[patient_identifier].injuries.v)

\* main.py:233-239: the record made when the identifier is not in patients_db
NewRecord_EmptySchedule(patient_identifier) ==
    [name |-> JStr(patient_identifier), injuries |-> JList(<<>>),
     weekly_schedule |-> JDict(EmptyDict)]

NewRecord(patient_identifier) ==
    [name |-> JStr(patient_identifier), injuries |-> JList(<<>>),
     weekly_schedule |-> JDict(create_weekly_schedule)]

add_injury_questionnaire(patient_name, questionnaire, authorization) ==
    LET current_user == get_current_user(authorization)
        patient_identifier == current_user.email
        op == "add_injury_questionnaire"
        isNew == patient_identifier \notin DOMAIN patients_db
        db1 == IF isNew
               THEN Put(patients_db, patient_identifier, NewRecord(patient_identifier))
               ELSE patients_db
    IN  /\ Served
        /\ data_file' = data_file
        /\ IF current_user.raised
           THEN /\ UNCHANGED <<patients_db, db_file>>
                /\ resp' = Response(op, patient_name, authorization, current_user.status, "",
                                    current_user.detail)
           ELSE IF patient_identifier = ""
           THEN /\ UNCHANGED <<patients_db, db_file>>
                /\ resp' = Response(op, patient_name, authorization, 400, "",
                                    "User email not found in token")
           ELSE \E outcome \in DiagnosisOutcomes :
                LET diagnosis_result == generate_diagnosis(api_key, outcome)
                    injury_data == Update(questionnaire, diagnosis_result.value)
                    db2 == [db1 EXCEPT ![patient_identifier].injuries.v = Append(@, injury_data)]
                IN  IF diagnosis_result.raised
                    THEN /\ patients_db' = db1
                         /\ db_file' = db_file
                         /\ resp' = [Response(op, patient_name, authorization, 500,
                                              patient_identifier,
                                              "Error during diagnosis generation: "
                                                  \o diagnosis_result.exc)
                                     EXCEPT !.created = isNew]
                    ELSE /\ patients_db' = db2
                         /\ db_file' = save_database(db2)
                         /\ resp' = [Response(op, patient_name, authorization, 200,
                                              patient_identifier, diagnosis_result.value)
                                     EXCEPT !.created = isNew, !.outcome = outcome]

\* The process is stopped and started again: main.py:296-304 loads
\* patients_db.json; what was only in memory is gone.  The new process reads
\* its environment anew (load_dotenv, os.getenv).
Restart ==
    /\ nreq < MaxOps
    /\ nreq' = nreq + 1
    /\ patients_db' = json_load(db_file)
    /\ api_key' \in BOOLEAN
    /\ resp' = Startup
    /\ UNCHANGED <<db_file, data_file, data_dir, chat, ext, tasks>>

(***************************************************************************)
(* The service: a fresh deployment (no patients_db.json), with or without  *)
(* init_db.py having made database/patients.json, with or without the API  *)
(* credential, then any sequence of requests and restarts.                 *)
(***************************************************************************)
ChatIdle == [pc |-> "idle", key |-> FALSE, arrived |-> <<>>, out |-> <<>>, error |-> ""]
ExtIdle == [pc |-> "idle", outcome |-> NoOutcome, key |-> FALSE,
            diagnosis |-> Raise(""), plan |-> Raise("")]

\* The threads of the process: the event loop, which runs the async handlers,
\* and the worker threads, which run the sync handlers
Workers == {"w1", "w2"}
Threads == {"loop"} \cup Workers
TaskIdle == [op |-> "", pc |-> "idle", name |-> "", day |-> "", exercise |-> NoExercise,
             result |-> Raise(""), status |-> 0, seen |-> EmptyDict]
TasksIdle == [t \in Threads |-> TaskIdle]

Init ==
    /\ patients_db = json_load(NoFile)
    /\ db_file = NoFile
    /\ data_dir \in BOOLEAN
    /\ data_file = IF data_dir THEN json_dump(EmptyDict) ELSE NoFile
    /\ api_key \in BOOLEAN
    /\ resp = Startup
    /\ nreq = 0
    /\ chat = ChatIdle
    /\ ext = ExtIdle
    /\ tasks = TasksIdle

Next ==
    \/ \E a \in Authorizations : read_users_me(a)
    \/ list_patients
    \/ \E n \in Names : get_patient(n)
    \/ \E p \in PatientCreates : create_patient(p)
    \/ \E n \in Names, u \in PatientUpdates : update_patient(n, u)
    \/ \E n \in Names : delete_patient(n)
    \/ \E n \in Names, a \in Authorizations : create_recovery_plan(n, a)
    \/ \E n \in Names : get_weekly_schedule(n)
    \/ \E n \in Names, d \in Days, e \in Exercises : add_exercise_to_day(n, d, e)
    \/ get_overall_pt_schedule
    \/ \E n \in Names, a \in Authorizations : get_patient_injuries(n, a)
    \/ \E n \in Names, q \in Questionnaires, a \in Authorizations :
           add_injury_questionnaire(n, q, a)
    \/ Restart

Spec == Init /\ [][Next]_vars

(***************************************************************************)
(* Properties of the service.                                              *)
(***************************************************************************)
SevenEmptyDays == [day \in Weekdays |-> JList(<<>>)]
ValidToken(a) == a.scheme = "Bearer" /\ a.sig_ok /\ a.email # ""
DiagnosisKeys == {"diagnosis", "reasoning", "recommendations"}

\* C1: in every reachable state, each patient's weekly_schedule has exactly
\* the seven weekday names as its keys.
C1_ScheduleKeysAreWeekdays ==
    \A p \in DOMAIN patients_db : DOMAIN patients_db[p].weekly_schedule.v = Weekdays

\* C2: add_exercise_to_day for an existing patient: with a weekday name, that
\* day's list is one longer with the new exercise last and every other day is
\* unchanged; with any other day, the answer is 400 and nothing is changed.
C2_DayAppend ==
    [][resp'.op = "add_exercise_to_day" /\ resp'.name \in DOMAIN patients_db =>
         LET p == resp'.name
             d == resp'.day
             ws == patients_db[p].weekly_schedule.v
         IN  IF d \in Weekdays
             THEN /\ p \in DOMAIN patients_db'
                  /\ d \in DOMAIN ws
                  /\ DOMAIN patients_db'[p].weekly_schedule.v = DOMAIN ws
                  /\ patients_db'[p].weekly_schedule.v[d].v = Append(ws[d].v, resp'.exercise)
                  /\ \A o \in DOMAIN ws \ {d} : patients_db'[p].weekly_schedule.v[o] = ws[o]
             ELSE /\ resp'.status = 400
                  /\ patients_db' = patients_db]_vars

\* C3 as claimed: a questionnaire with a valid token whose email is not in the
\* store always ends with the patient present with an empty seven-day schedule,
\* one injury, and a response holding diagnosis, reasoning and recommendations.
C3_Original ==
    [][resp'.op = "add_injury_questionnaire" /\ ValidToken(resp'.auth)
         /\ resp'.auth.email \notin DOMAIN patients_db =>
         LET e == resp'.auth.email
         IN  /\ e \in DOMAIN patients_db'
             /\ patients_db'[e].weekly_schedule.v = SevenEmptyDays
             /\ Len(patients_db'[e].injuries.v) = 1
             /\ resp'.status = 200
             /\ DiagnosisKeys \subseteq DOMAIN resp'.body]_vars

\* Whether the provider's outcome leads to a response with the three keys: the
\* call failed, the reply holds no JSON object, or the object has the keys.
YieldsDiagnosisKeys(o) ==
    \/ o.kind = "error"
    \/ ~re_search(o.text).matched
    \/ ~IsObject(re_search(o.text).group)
    \/ DiagnosisKeys \subseteq DOMAIN ObjectOf(re_search(o.text).group)

\* C3 as amended: such a questionnaire always ends with the patient present
\* with an empty seven-day schedule; with the API credential set the request is
\* answered 200, the injury list has length 1, and the response holds the three
\* keys unless the reply's JSON object lacks them; with the credential missing
\* the request is answered 500 and the injury list is empty.
C3_QuestionnaireNewPatient ==
    [][resp'.op = "add_injury_questionnaire" /\ ValidToken(resp'.auth)
         /\ resp'.auth.email \notin DOMAIN patients_db =>
         LET e == resp'.auth.email
         IN  /\ e \in DOMAIN patients_db'
             /\ patients_db'[e].weekly_schedule.v = SevenEmptyDays
             /\ IF api_key
                THEN /\ resp'.status = 200
                     /\ Len(patients_db'[e].injuries.v) = 1
                     /\ YieldsDiagnosisKeys(resp'.outcome) =>
                            DiagnosisKeys \subseteq DOMAIN resp'.body
                ELSE /\ resp'.status = 500
                     /\ patients_db'[e].injuries.v = <<>>]_vars

\* C3 witness: a new patient's questionnaire was answered while the provider
\* call failed, and the patient has one injury.
C3_Witness ==
    /\ resp.op = "add_injury_questionnaire"
    /\ resp.created
    /\ resp.status = 200
    /\ resp.outcome.kind = "error"
    /\ Len(patients_db[resp.key].injuries.v) = 1

\* C4 as claimed: recovery-plan generation for an existing patient with no
\* injuries answers 400, calls no provider and changes nothing; with at least
\* one injury it replaces that patient's weekly_schedule with the generated
\* plan and leaves the injuries and every other patient unchanged.
C4_Original ==
    [][resp'.op = "create_recovery_plan" /\ ValidToken(resp'.auth)
         /\ resp'.auth.email \in DOMAIN patients_db =>
         LET e == resp'.auth.email
         IN  IF patients_db[e].injuries.v = <<>>
             THEN /\ resp'.status = 400
                  /\ resp'.outcome.kind = "none"
                  /\ patients_db' = patients_db
                  /\ db_file' = db_file
             ELSE /\ resp'.status = 200
                  /\ patients_db' =
                         [patients_db EXCEPT ![e].weekly_schedule = JDict(resp'.body)]]_vars

\* C4 as amended: with no injuries the answer is 400, no provider call is made
\* and nothing changes; with at least one injury and the API credential set,
\* only that patient's weekly_schedule is replaced, by the generated plan; with
\* at least one injury and no credential the answer is 500 and nothing changes.
C4_RecoveryPlanFrame ==
    [][resp'.op = "create_recovery_plan" /\ ValidToken(resp'.auth)
         /\ resp'.auth.email \in DOMAIN patients_db =>
         LET e == resp'.auth.email
         IN  IF patients_db[e].injuries.v = <<>>
             THEN /\ resp'.status = 400
                  /\ resp'.outcome.kind = "none"
                  /\ patients_db' = patients_db
                  /\ db_file' = db_file
             ELSE IF api_key
             THEN /\ resp'.status = 200
                  /\ resp'.outcome.kind # "none"
                  /\ patients_db' =
                         [patients_db EXCEPT ![e].weekly_schedule = JDict(resp'.body)]
             ELSE /\ resp'.status = 500
                  /\ resp'.outcome.kind = "none"
                  /\ patients_db' = patients_db
                  /\ db_file' = db_file]_vars

\* C4 witness: a plan was written for a patient with an injury while another
\* patient is in the store.
C4_Witness ==
    /\ resp.op = "create_recovery_plan"
    /\ resp.status = 200
    /\ patients_db[resp.key].injuries.v # <<>>
    /\ patients_db[resp.key].weekly_schedule.v = resp.body
    /\ DOMAIN patients_db = Names

\* C5: create_patient for a name not in the store adds a record with no
\* injuries and seven empty weekday lists; for a name in the store it answers
\* 400 and leaves the store unchanged.
C5_CreatePatient ==
    [][resp'.op = "create_patient" =>
         LET n == resp'.name
         IN  IF n \notin DOMAIN patients_db
             THEN /\ resp'.status = 200
                  /\ DOMAIN patients_db' = DOMAIN patients_db \cup {n}
                  /\ patients_db'[n].injuries.v = <<>>
                  /\ patients_db'[n].weekly_schedule.v = SevenEmptyDays
                  /\ \A m \in DOMAIN patients_db : patients_db'[m] = patients_db[m]
             ELSE /\ resp'.status = 400
                  /\ patients_db' = patients_db]_vars

\* C5 witness: create_patient was refused for a patient that a questionnaire
\* had created and that has an injury.
C5_Witness ==
    /\ resp.op = "create_patient"
    /\ resp.status = 400
    /\ "age" \notin DOMAIN patients_db[resp.name]
    /\ patients_db[resp.name].injuries.v # <<>>

\* C6: after a save-triggering operation completes, reloading from the file
\* read at startup yields the in-memory mapping.
SaveTriggering ==
    {"delete_patient", "add_injury_questionnaire", "add_exercise_to_day", "create_recovery_plan"}

C6_ReloadEqualsMemory ==
    resp.op \in SaveTriggering /\ resp.status = 200 => json_load(db_file) = patients_db

\* C7: every identifier-scoped operation acts on the record keyed by the email
\* of the caller's verified token, and a request without a valid token is
\* answered 401.
IdentifierScoped ==
    {"get_patient", "update_patient", "delete_patient", "get_weekly_schedule",
     "add_exercise_to_day", "add_injury_questionnaire", "get_patient_injuries",
     "create_recovery_plan"}

C7_TokenScoped ==
    resp.op \in IdentifierScoped =>
        IF resp.auth.scheme = "Bearer" /\ resp.auth.sig_ok
        THEN resp.key = resp.auth.email
        ELSE resp.status = 401

Fragments == {"Rest", " and", " ice"}
ErrorDetails == {"overloaded", "timeout"}
Apology(detail) == "Sorry, I encountered an error: " \o detail

StoreIdle ==
    /\ patients_db = EmptyDict
    /\ db_file = NoFile
    /\ data_file = NoFile
    /\ data_dir = FALSE
    /\ api_key = FALSE
    /\ resp = Startup
    /\ nreq = 0
    /\ tasks = TasksIdle

StoreUnchanged ==
    UNCHANGED <<patients_db, db_file, data_file, data_dir, api_key, resp, nreq, tasks>>

\* services.py:172-179: the credential check, outside the try
ChatStart ==
    /\ chat.pc = "start"
    /\ chat' = [chat EXCEPT !.pc = IF chat.key THEN "streaming" ELSE "raised"]
    /\ StoreUnchanged /\ UNCHANGED ext

\* services.py:188-191: the provider delivers a fragment and it is yielded
ChatFragment(text) ==
    /\ chat.pc = "streaming"
    /\ Len(chat.arrived) < MaxFrags
    /\ chat' = [chat EXCEPT !.arrived = Append(@, text), !.out = Append(@, text)]
    /\ StoreUnchanged /\ UNCHANGED ext

\* services.py:188: text_stream is exhausted, the generator returns
ChatComplete ==
    /\ chat.pc = "streaming"
    /\ chat' = [chat EXCEPT !.pc = "done"]
    /\ StoreUnchanged /\ UNCHANGED ext

ChatFail_Reraise(detail) ==
    /\ chat.pc = "streaming"
    /\ chat' = [chat EXCEPT !.pc = "raised", !.error = detail]
    /\ StoreUnchanged /\ UNCHANGED ext

\* services.py:193-195: opening the stream or reading it raises; the handler
\* yields the apology and the generator returns
ChatFail(detail) ==
    /\ chat.pc = "streaming"
    /\ chat' = [chat EXCEPT !.pc = "done", !.error = detail,
                            !.out = Append(@, Apology(detail))]
    /\ StoreUnchanged /\ UNCHANGED ext

InitChat ==
    /\ StoreIdle
    /\ ext = ExtIdle
    /\ \E key \in BOOLEAN :
           chat = [pc |-> "start", key |-> key, arrived |-> <<>>, out |-> <<>>, error |-> ""]

NextChat ==
    \/ ChatStart
    \/ \E text \in Fragments : ChatFragment(text)
    \/ ChatComplete
    \/ \E detail \in ErrorDetails : ChatFail(detail)

\* The consumer keeps asking for the next fragment and the provider's stream
\* is finite: a step that can be taken is taken.
SpecChat == InitChat /\ [][NextChat]_vars /\ WF_vars(NextChat)

\* C9 as claimed: the generator never raises to its consumer; when it has
\* returned it has yielded the provider's fragments in arrival order, followed
\* by exactly one apology when the provider failed.
C9_Original ==
    /\ chat.pc # "raised"
    /\ chat.pc = "done" =>
           chat.out = IF chat.error = "" THEN chat.arrived
                      ELSE Append(chat.arrived, Apology(chat.error))

\* C9 as amended: with the API credential set the generator always ends by
\* returning, having yielded the provider's fragments in arrival order and,
\* when the provider failed, one final apology with the error detail; with the
\* credential missing it ends by raising to its consumer before any fragment.
C9_ChatStream ==
    /\ [](chat.pc = "raised" => ~chat.key /\ chat.out = <<>>)
    /\ [](chat.pc = "done" =>
            /\ chat.key
            /\ chat.out = IF chat.error = "" THEN chat.arrived
                          ELSE Append(chat.arrived, Apology(chat.error)))
    /\ [](chat.pc = "streaming" => chat.out = chat.arrived)
    /\ <>(chat.pc \in {"done", "raised"})

\* C9 witness: the provider failed after two fragments and the stream ended
\* with the apology.
C9_Witness ==
    /\ chat.pc = "done"
    /\ Len(chat.arrived) = 2
    /\ chat.error = "timeout"
    /\ Len(chat.out) = 3

(***************************************************************************)
(* services.py:75-94 and 139-159 as functions of the reply: one provider   *)
(* outcome is handed to both call sites.                                   *)
(***************************************************************************)
ReplyChars == {"{", "}", "t", "k", "D"}

RECURSIVE TextsUpTo(_)
TextsUpTo(n) ==
    IF n = 0 THEN {<<>>}
    ELSE LET shorter == TextsUpTo(n - 1)
         IN  shorter \cup {Append(s, c) : s \in shorter, c \in ReplyChars}

ExtDiagnosis ==
    /\ ext.pc \in {"input", "plan"}
    /\ ext' = [ext EXCEPT !.pc = IF ext.pc = "input" THEN "diagnosis" ELSE "both",
                          !.diagnosis = generate_diagnosis(ext.key, ext.outcome)]
    /\ StoreUnchanged /\ UNCHANGED chat

ExtPlan ==
    /\ ext.pc \in {"input", "diagnosis"}
    /\ ext' = [ext EXCEPT !.pc = IF ext.pc = "input" THEN "plan" ELSE "both",
                          !.plan = generate_recovery_plan(ext.key, ext.outcome)]
    /\ StoreUnchanged /\ UNCHANGED chat

InitExtract ==
    /\ StoreIdle
    /\ chat = ChatIdle
    /\ \E key \in BOOLEAN :
       \E outcome \in {ProviderText(text) : text \in TextsUpTo(MaxLen)}
                        \cup {ProviderError(detail) : detail \in ErrorDetails} :
           ext = [ExtIdle EXCEPT !.pc = "input", !.key = key, !.outcome = outcome]

NextExtract == ExtDiagnosis \/ ExtPlan

SpecExtract == InitExtract /\ [][NextExtract]_vars

\* The reply holds no {...} span, or the span is not the text of a JSON value
Unparseable(text) ==
    \/ \A i, j \in 1..Len(text) : ~(i < j /\ text[i] = "{" /\ text[j] = "}")
    \/ ~IsObject(re_search(text).group)

\* C10: at both call sites, when the reply holds no {...} span or the span is
\* not valid JSON, the result is the call site's parse fallback object and no
\* exception reaches the caller.
C10_ParseFallback ==
    ext.pc = "both" /\ ext.key /\ ext.outcome.kind = "text" /\ Unparseable(ext.outcome.text) =>
        /\ ~ext.diagnosis.raised
        /\ ext.diagnosis.value =
               [diagnosis |-> JStr("Error parsing diagnosis"),
                reasoning |-> JStr("Could not generate reasoning"),
                recommendations |-> JStr("Consult a healthcare provider")]
        /\ ~ext.plan.raised
        /\ ext.plan.value =
               [error |-> JStr("Failed to generate recovery plan"),
                message |-> JStr("Could not parse the AI response")]

\* C11: for every reply text of the form prefix + one valid JSON object +
\* suffix, whatever the prefix and the suffix are (braces included), both call
\* sites return exactly the object that the embedded text denotes.
C11_ExtractsEmbeddedObject ==
    ext.pc = "both" /\ ext.key /\ ext.outcome.kind = "text" =>
        \A i, j \in 1..Len(ext.outcome.text) :
            i < j /\ IsObject(SubSeq(ext.outcome.text, i, j)) =>
                /\ ext.diagnosis = Return(ObjectOf(SubSeq(ext.outcome.text, i, j)))
                /\ ext.plan = Return(ObjectOf(SubSeq(ext.outcome.text, i, j)))

\* The number of exercises that the patients in names have on the day
RECURSIVE ExercisesOn(_, _, _)
ExercisesOn(db, names, day) ==
    IF names = {} THEN 0
    ELSE LET n == CHOOSE m \in names : TRUE
             ws == db[n].weekly_schedule.v
         IN  (IF day \in DOMAIN ws /\ ws[day].t = "list" THEN Len(ws[day].v) ELSE 0)
                 + ExercisesOn(db, names \ {n}, day)

\* C12: in every reachable state get_overall_pt_schedule succeeds and returns a
\* mapping of the seven weekdays in which each day's list has one entry
\* "identifier: exerciseName" per exercise of every patient on that day, so its
\* length is the sum over the patients of the lengths of that day's lists.
C12_OverallSchedule ==
    resp.op = "get_overall_pt_schedule" =>
        /\ resp.status = 200
        /\ DOMAIN resp.body = Weekdays
        /\ \A day \in Weekdays :
               /\ Len(resp.body[day].v) = ExercisesOn(patients_db, DOMAIN patients_db, day)
               /\ \A p \in DOMAIN patients_db :
                      \A i \in DOMAIN patients_db[p].weekly_schedule.v[day].v :
                          \E j \in DOMAIN resp.body[day].v :
                              resp.body[day].v[j] =
                                  p \o ": " \o patients_db[p].weekly_schedule.v[day].v[i].name.v

\* C13: update_patient on an existing patient changes exactly the profile
\* fields supplied in the request and leaves every field not supplied, the
\* patient's name, injuries and weekly_schedule, and all other patients
\* unchanged; on an absent patient it answers 404 and changes nothing.
C13_UpdateFrame ==
    [][resp'.op = "update_patient" =>
         LET n == resp'.name
             u == resp'.update
         IN  IF n \in DOMAIN patients_db
             THEN /\ resp'.status = 200
                  /\ DOMAIN patients_db' = DOMAIN patients_db
                  /\ DOMAIN patients_db'[n] = (DOMAIN patients_db[n]) \cup (DOMAIN u)
                  /\ \A k \in DOMAIN u : patients_db'[n][k] = u[k]
                  /\ \A k \in (DOMAIN patients_db[n]) \ (DOMAIN u) :
                         patients_db'[n][k] = patients_db[n][k]
                  /\ \A k \in {"name", "injuries", "weekly_schedule"} :
                         patients_db'[n][k] = patients_db[n][k]
                  /\ \A m \in (DOMAIN patients_db) \ {n} : patients_db'[m] = patients_db[m]
             ELSE /\ resp'.status = 404
                  /\ patients_db' = patients_db
                  /\ db_file' = db_file
                  /\ data_file' = data_file]_vars

\* C13 witness: an update that set the age to null and the goals was applied to
\* a patient who has an injury and no other profile field.
C13_Witness ==
    /\ resp.op = "update_patient"
    /\ resp.status = 200
    /\ DOMAIN resp.update = {"age", "goals"}
    /\ patients_db[resp.name].injuries.v # <<>>
    /\ patients_db[resp.name].age = JNull
    /\ DOMAIN patients_db[resp.name] = {"name", "injuries", "weekly_schedule", "age", "goals"}

(***************************************************************************)
(* main.py:108-258 under concurrency.  uvicorn runs one event loop; the     *)
(* async handlers (add_injury_questionnaire, create_recovery_plan) run on   *)
(* it and have no await, so one runs at a time, but generate_diagnosis and  *)
(* generate_recovery_plan block in a network call, during which the worker  *)
(* threads run.  The sync handlers (delete_patient, add_exercise_to_day)    *)
(* run in worker threads, which the interpreter may switch between any two  *)
(* statements.  No handler takes a lock.  Each thread handles one request;  *)
(* the token of an async request is valid and carries tasks[t].name.        *)
(* tasks[t].pc: "start" before the existence check, "checked" after it,     *)
(* "generated" when the provider has answered, "mutated" when a sync        *)
(* handler has changed patients_db and not yet saved, "done" when answered. *)
(* tasks[t].seen is the patient's record as the existence check left it.    *)
(***************************************************************************)
AsyncOps == {"add_injury_questionnaire", "create_recovery_plan"}
SyncOps == {"delete_patient", "add_exercise_to_day"}

ConcFrame == UNCHANGED <<data_dir, api_key, resp, nreq, chat, ext>>

Answered(t, status) == [tasks EXCEPT ![t].pc = "done", ![t].status = status]

\* A request arrives and is given to the event loop or to a free worker thread
Accept(t, op, name) ==
    /\ tasks[t].pc = "idle"
    /\ op \in (IF t = "loop" THEN AsyncOps ELSE SyncOps)
    /\ tasks' = [tasks EXCEPT ![t] =
                    [TaskIdle EXCEPT !.op = op, !.pc = "start", !.name = name,
                                     !.day = IF op = "add_exercise_to_day" THEN "Monday" ELSE "",
                                     !.exercise = IF op = "add_exercise_to_day" THEN Ex1
                                                  ELSE NoExercise]]
    /\ UNCHANGED <<patients_db, db_file, data_file>>
    /\ ConcFrame

\* main.py:233-239
QuestionnaireCheck ==
    LET patient_identifier == tasks["loop"].name
        db1 == IF patient_identifier \notin DOMAIN patients_db
               THEN Put(patients_db, patient_identifier, NewRecord(patient_identifier))
               ELSE patients_db
    IN  /\ tasks["loop"].op = "add_injury_questionnaire"
        /\ tasks["loop"].pc = "start"
        /\ patients_db' = db1
        /\ tasks' = [tasks EXCEPT !["loop"].pc = "checked", !["loop"].seen = db1[patient_identifier]]
        /\ UNCHANGED <<db_file, data_file>>
        /\ ConcFrame

\* main.py:242-244, 255-258
QuestionnaireDiagnose ==
    /\ tasks["loop"].op = "add_injury_questionnaire"
    /\ tasks["loop"].pc = "checked"
    /\ \E outcome \in DiagnosisOutcomes :
           LET diagnosis_result == generate_diagnosis(api_key, outcome)
           IN  tasks' = IF diagnosis_result.raised
                        THEN [Answered("loop", 500) EXCEPT !["loop"].result = diagnosis_result]
                        ELSE [tasks EXCEPT !["loop"].pc = "generated",
                                           !["loop"].result = diagnosis_result]
    /\ UNCHANGED <<patients_db, db_file, data_file>>
    /\ ConcFrame

\* main.py:247-253; patients_db[patient_identifier] raises KeyError when the
\* record is gone, which the except clause answers with 500
QuestionnaireWrite ==
    LET patient_identifier == tasks["loop"].name
    IN  /\ tasks["loop"].op = "add_injury_questionnaire"
        /\ tasks["loop"].pc = "generated"
        /\ \E questionnaire \in Questionnaires :
               IF patient_identifier \notin DOMAIN patients_db
               THEN /\ tasks' = Answered("loop", 500)
                    /\ UNCHANGED <<patients_db, db_file>>
               ELSE LET injury_data == Update(questionnaire, tasks["loop"].result.value)
                        db2 == [patients_db EXCEPT
                                   ![patient_identifier].injuries.v = Append(@, injury_data)]
                    IN  /\ patients_db' = db2
                        /\ db_file' = save_database(db2)
                        /\ tasks' = Answered("loop", 200)
        /\ data_file' = data_file
        /\ ConcFrame

\* main.py:138-145
PlanCheck ==
    LET patient_identifier == tasks["loop"].name
    IN  /\ tasks["loop"].op = "create_recovery_plan"
        /\ tasks["loop"].pc = "start"
        /\ tasks' = IF patient_identifier \notin DOMAIN patients_db
                    THEN Answered("loop", 404)
                    ELSE IF NoInjuries(patients_db[patient_identifier])
                    THEN Answered("loop", 400)
                    ELSE [tasks EXCEPT !["loop"].pc = "checked",
                                       !["loop"].seen = patients_db[patient_identifier]]
        /\ UNCHANGED <<patients_db, db_file, data_file>>
        /\ ConcFrame

\* main.py:148, 155-158
PlanGenerate ==
    /\ tasks["loop"].op = "create_recovery_plan"
    /\ tasks["loop"].pc = "checked"
    /\ \E outcome \in PlanOutcomes :
           LET recovery_plan == generate_recovery_plan(api_key, outcome)
           IN  tasks' = IF recovery_plan.raised
                        THEN [Answered("loop", 500) EXCEPT !["loop"].result = recovery_plan]
                        ELSE [tasks EXCEPT !["loop"].pc = "generated",
                                           !["loop"].result = recovery_plan]
    /\ UNCHANGED <<patients_db, db_file, data_file>>
    /\ ConcFrame

\* main.py:151-154; KeyError when the record is gone, answered with 500
PlanWrite ==
    LET patient_identifier == tasks["loop"].name
    IN  /\ tasks["loop"].op = "create_recovery_plan"
        /\ tasks["loop"].pc = "generated"
        /\ IF patient_identifier \notin DOMAIN patients_db
           THEN /\ tasks' = Answered("loop", 500)
                /\ UNCHANGED <<patients_db, db_file>>
           ELSE LET db == [patients_db EXCEPT ![patient_identifier].weekly_schedule =
                                                  JDict(tasks["loop"].result.value)]
                IN  /\ patients_db' = db
                    /\ db_file' = save_database(db)
                    /\ tasks' = Answered("loop", 200)
        /\ data_file' = data_file
        /\ ConcFrame

\* main.py:113-114
DeleteCheck(t) ==
    /\ tasks[t].op = "delete_patient"
    /\ tasks[t].pc = "start"
    /\ tasks' = IF tasks[t].name \notin DOMAIN patients_db
                THEN Answered(t, 404)
                ELSE [tasks EXCEPT ![t].pc = "checked", ![t].seen = patients_db[tasks[t].name]]
    /\ UNCHANGED <<patients_db, db_file, data_file>>
    /\ ConcFrame

\* main.py:115; del raises KeyError when the record is gone
DeleteDel(t) ==
    /\ tasks[t].op = "delete_patient"
    /\ tasks[t].pc = "checked"
    /\ IF tasks[t].name \notin DOMAIN patients_db
       THEN /\ tasks' = Answered(t, 500)
            /\ patients_db' = patients_db
       ELSE /\ tasks' = [tasks EXCEPT ![t].pc = "mutated"]
            /\ patients_db' = Del(patients_db, tasks[t].name)
    /\ UNCHANGED <<db_file, data_file>>
    /\ ConcFrame

\* main.py:116-117
DeleteSave(t) ==
    LET saved == save_patients(patients_db)
    IN  /\ tasks[t].op = "delete_patient"
        /\ tasks[t].pc = "mutated"
        /\ data_file' = saved.file
        /\ tasks' = Answered(t, IF saved.raised THEN 500 ELSE 200)
        /\ UNCHANGED <<patients_db, db_file>>
        /\ ConcFrame

\* main.py:175-178
AppendCheck(t) ==
    /\ tasks[t].op = "add_exercise_to_day"
    /\ tasks[t].pc = "start"
    /\ tasks' = IF tasks[t].name \notin DOMAIN patients_db
                THEN Answered(t, 404)
                ELSE IF tasks[t].day \notin DOMAIN patients_db[tasks[t].name].weekly_schedule.v
                THEN Answered(t, 400)
                ELSE [tasks EXCEPT ![t].pc = "checked", ![t].seen = patients_db[tasks[t].name]]
    /\ UNCHANGED <<patients_db, db_file, data_file>>
    /\ ConcFrame

\* main.py:180; KeyError when the record or the day is gone, AttributeError
\* when the value under the day is no list
AppendAppend(t) ==
    /\ tasks[t].op = "add_exercise_to_day"
    /\ tasks[t].pc = "checked"
    /\ IF \/ tasks[t].name \notin DOMAIN patients_db
          \/ tasks[t].day \notin DOMAIN patients_db[tasks[t].name].weekly_schedule.v
          \/ patients_db[tasks[t].name].weekly_schedule.v[tasks[t].day].t # "list"
       THEN /\ tasks' = Answered(t, 500)
            /\ patients_db' = patients_db
       ELSE /\ tasks' = [tasks EXCEPT ![t].pc = "mutated"]
            /\ patients_db' = AppendExercise(patients_db, tasks[t].name, tasks[t].day,
                                             tasks[t].exercise)
    /\ UNCHANGED <<db_file, data_file>>
    /\ ConcFrame

\* main.py:181-182
AppendSave(t) ==
    LET saved == save_patients(patients_db)
    IN  /\ tasks[t].op = "add_exercise_to_day"
        /\ tasks[t].pc = "mutated"
        /\ data_file' = saved.file
        /\ tasks' = Answered(t, IF saved.raised THEN 500 ELSE 200)
        /\ UNCHANGED <<patients_db, db_file>>
        /\ ConcFrame

\* The store when the requests arrive: empty, or holding the record that a
\* questionnaire for ann@pt.io left (one injury, seven empty days)
StoredAfterQuestionnaire ==
    LET questionnaire == CHOOSE q \in Questionnaires : TRUE
        injury_data == Update(questionnaire, MemberDict("D"))
    IN  Put(EmptyDict, "ann@pt.io",
            [NewRecord("ann@pt.io") EXCEPT !.injuries.v = <<injury_data>>])

InitConc ==
    /\ patients_db \in {EmptyDict, StoredAfterQuestionnaire}
    /\ db_file = IF patients_db = EmptyDict THEN NoFile ELSE save_database(patients_db)
    /\ data_dir = TRUE
    /\ data_file = json_dump(EmptyDict)
    /\ api_key = TRUE
    /\ resp = Startup
    /\ nreq = 0
    /\ chat = ChatIdle
    /\ ext = ExtIdle
    /\ tasks = TasksIdle

NextConc ==
    \/ \E t \in Threads, op \in AsyncOps \cup SyncOps, n \in Names : Accept(t, op, n)
    \/ QuestionnaireCheck
    \/ QuestionnaireDiagnose
    \/ QuestionnaireWrite
    \/ PlanCheck
    \/ PlanGenerate
    \/ PlanWrite
    \/ \E t \in Workers : DeleteCheck(t)
    \/ \E t \in Workers : DeleteDel(t)
    \/ \E t \in Workers : DeleteSave(t)
    \/ \E t \in Workers : AppendCheck(t)
    \/ \E t \in Workers : AppendAppend(t)
    \/ \E t \in Workers : AppendSave(t)

SpecConc == InitConc /\ [][NextConc]_vars

\* C14: mutations of the store are serialized: for every request that has made
\* its existence check and not yet its own write, the patient is still in the
\* store (it is never found deleted) and the patient's record is as the check
\* left it (no other request's mutation is observed, so no day-append falls
\* between a recovery plan's check and its schedule write and is lost).
C14_Serialized ==
    \A t \in Threads :
        tasks[t].pc \in {"checked", "generated"} =>
            /\ tasks[t].name \in DOMAIN patients_db
            /\ patients_db[tasks[t].name] = tasks[t].seen

====
